---- MODULE Spec2Model ----
(***************************************************************************)
(* Model of the buffer-slot manager, mpp/codec/mpp_buf_slot.cpp.           *)
(*                                                                         *)
(* A status word is the set of its bits that are set; an MppFrame is a     *)
(* record of what sizeof(MppFrameImpl) bytes carry here (metadata and the  *)
(* buffer binding), NoFrame standing for a NULL frame pointer.  The        *)
(* display list is kept as the pointers of the intrusive list_head nodes,  *)
(* so that what list_del_init and list_add_tail do to a node that is or is *)
(* not linked is computed, not assumed.  mpp_realloc is taken to resize    *)
(* the table in place, keeping the entries that survive.                   *)
(***************************************************************************)
EXTENDS Integers, Sequences, FiniteSets

\* ------------------------------------------------------------ bounds
MaxCount == 3
MaxSize == 2
MaxMeta == 1
MaxOps == 6
MaxBuffers == 1
MaxHeld == 1
CounterWidth == 1
MaxThreads == 2
MaxCalls == 3

\* ------------------------------------------------------------ constants
MPP_SLOT_USED == 1
MPP_SLOT_USED_AS_REF == 2
MPP_SLOT_USED_AS_DECODING == 4
MPP_SLOT_USED_AS_DISPLAY == 8
MPP_SLOT_UNUSED == {}

NULL == 0
HEAD == -1
NoFrame == [meta |-> -1, buffer |-> -1]

Counts == (MaxCount - 1)..MaxCount
Sizes == 1..MaxSize
Metas == 1..MaxMeta
Buffers == 1..MaxBuffers
AllIndex == 0..(MaxCount - 1)
Threads == 1..MaxThreads
NoThread == 0
CounterMod == 2 ^ CounterWidth

VARIABLES
    slots,
    allocated,
    display,
    count,
    size,
    decode_count,
    display_count,
    info_changed,
    new_count,
    new_size,
    output,
    halted,
    held,
    markOrder,
    staged,
    last,
    steps,
    lock,
    pc,
    scan,
    seen

vars == <<slots, allocated, display, count, size, decode_count, display_count, info_changed,
          new_count, new_size, output, halted, held, markOrder, staged, last, steps,
          lock, pc, scan, seen>>

\* The calling threads: who holds impl->lock, where each thread is in its
\* call, the loop variable of a scan in progress, and what the last unlocked
\* query read.
tvars == <<lock, pc, scan, seen>>

impl == <<count, size, decode_count, display_count, info_changed,
          new_count, new_size, output>>

\* ------------------------------------------------------------ helpers
SeqWithout(s, x) == SelectSeq(s, LAMBDA y : y # x)

SeqSet(s) == {s[k] : k \in 1..Len(s)}

NoDup(s) == \A a, b \in 1..Len(s) : a # b => s[a] # s[b]

Alloc(S) == Cardinality(DOMAIN S)

SlotsIsNull == ~allocated

Heap(S, D) == [slots |-> S, display |-> D]

NodeOf(H, n) == IF n = HEAD THEN H.display ELSE H.slots[n].list

NodeValid(H, n) == n = HEAD \/ n \in DOMAIN H.slots

SetNext(H, n, v) ==
    IF n = HEAD THEN [H EXCEPT !.display.next = v]
    ELSE [H EXCEPT !.slots[n].list.next = v]

SetPrev(H, n, v) ==
    IF n = HEAD THEN [H EXCEPT !.display.prev = v]
    ELSE [H EXCEPT !.slots[n].list.prev = v]

INIT_LIST_HEAD(H, n) == SetPrev(SetNext(H, n, n), n, n)

list_empty(H, head) == NodeOf(H, head).next = head

\* Mutant of list_del_init: the entry is reinitialised without being unlinked
\* from its neighbours.
list_del_init_NoUnlink(H, e) == INIT_LIST_HEAD(H, e)

list_del_init(H, e) ==
    LET p == NodeOf(H, e).prev
        n == NodeOf(H, e).next
        H1 == SetPrev(H, n, p)
        H2 == SetNext(H1, p, n)
    IN  INIT_LIST_HEAD(H2, e)

\* Mutant of list_add_tail: list_add, which links the node in after the head.
list_add_head(H, new, head) ==
    LET next == NodeOf(H, head).next
        H1 == SetPrev(H, next, new)
        H2 == SetNext(H1, new, next)
        H3 == SetPrev(H2, new, head)
    IN  SetNext(H3, head, new)

list_add_tail(H, new, head) ==
    LET prev == NodeOf(H, head).prev
        H1 == SetPrev(H, head, new)
        H2 == SetNext(H1, new, head)
        H3 == SetPrev(H2, new, prev)
    IN  SetNext(H3, prev, new)

\* The nodes list_del_init(e) dereferences: e's neighbours.
DelTouches(H, e) == {NodeOf(H, e).prev, NodeOf(H, e).next}

RECURSIVE Walk(_, _, _)
Walk(H, n, fuel) ==
    IF n = HEAD \/ fuel = 0 \/ ~NodeValid(H, n) THEN <<>>
    ELSE <<n>> \o Walk(H, NodeOf(H, n).next, fuel - 1)

\* The display queue as popDisplay would see it: the entries met following
\* next from impl->display, cut after one more step than the table has entries.
DisplayList == Walk(Heap(slots, display), display.next, Alloc(slots) + 1)

FreshEntry(i) ==
    [list |-> [next |-> i, prev |-> i], status |-> MPP_SLOT_UNUSED,
     index |-> i, frame |-> NoFrame]

\* The table resized in place to n entries.  What realloc leaves in an added
\* entry is never read: every caller runs init_slot_entry over the added range.
mpp_realloc(S, n) ==
    [i \in 0..(n - 1) |-> IF i \in DOMAIN S THEN S[i] ELSE FreshEntry(i)]

init_slot_entry(S, pos, cnt) ==
    [i \in DOMAIN S |-> IF i >= pos /\ i < pos + cnt THEN FreshEntry(i) ELSE S[i]]

\* Mutant of check_entry_unused: tests the USED bit instead of comparing the
\* whole status word.
check_entry_unused_AnyUsed(entry) ==
    IF MPP_SLOT_USED \in entry.status
    THEN [entry EXCEPT !.status = MPP_SLOT_UNUSED, !.frame = NoFrame]
    ELSE entry

\* Mutant of check_entry_unused: the claim bits other than DISPLAY are masked
\* out before the comparison.
check_entry_unused_Masked(entry) ==
    IF MPP_SLOT_USED \in entry.status /\ MPP_SLOT_USED_AS_DISPLAY \notin entry.status
    THEN [entry EXCEPT !.status = MPP_SLOT_UNUSED, !.frame = NoFrame]
    ELSE entry

\* Mutant of check_entry_unused: the frame stays attached and only its buffer
\* binding is cleared.
check_entry_unused_KeepFrame(entry) ==
    IF entry.status = {MPP_SLOT_USED}
    THEN [entry EXCEPT !.status = MPP_SLOT_UNUSED,
                       !.frame = IF @ = NoFrame THEN @ ELSE [@ EXCEPT !.buffer = NULL]]
    ELSE entry

check_entry_unused(entry) ==
    IF entry.status = {MPP_SLOT_USED}
    THEN [entry EXCEPT !.status = MPP_SLOT_UNUSED, !.frame = NoFrame]
    ELSE entry

mpp_frame_get_buffer(frame) == IF frame = NoFrame THEN NULL ELSE frame.buffer

\* What the release check on table entry t does to the pool's references: the
\* buffer bound to the entry's frame is put when the entry is exactly USED.
PutOnRelease(S, t) ==
    IF S[t].status = {MPP_SLOT_USED} /\ mpp_frame_get_buffer(S[t].frame) # NULL
    THEN [held EXCEPT ![t] = IF @ > 0 THEN @ - 1 ELSE 0]
    ELSE held

\* mpp_assert(entry->frame) inside the release check fails.
ReleaseAssertFails(S, t) == S[t].status = {MPP_SLOT_USED} /\ S[t].frame = NoFrame

ReleasedBy(S, t) == IF S[t].status = {MPP_SLOT_USED} THEN {t} ELSE {}

\* The record of a call: what was called, on which index, what it returned,
\* which entries its release check took to UNUSED, whether it called
\* mpp_frame_init, and whether an mpp_assert failed in it and the build went on.
Op(op, index, ret, released) ==
    [op |-> op, index |-> index, ret |-> ret, released |-> released,
     frame_init |-> FALSE, asserted |-> FALSE]

Asserted(rec, failed) == [rec EXCEPT !.asserted = failed]

\* The pool and what is known of its buffer references and of the calls made,
\* without the record of the last call.
core == <<slots, allocated, display, impl, held, markOrder, staged>>

\* A call that leaves everything as it was is a stuttering step; any other is
\* recorded and counted.
Record(rec) ==
    /\ last' = IF core' = core THEN last ELSE rec
    /\ steps' = IF core' = core THEN steps ELSE steps + 1
    /\ halted' = halted

\* Mutant of Fail: the call counts itself before it finds it has nothing to
\* return.
Fail_Counted(rec) ==
    /\ last' = rec
    /\ display_count' = (display_count + 1) % CounterMod
    /\ UNCHANGED <<slots, allocated, display, count, size, decode_count, info_changed,
                   new_count, new_size, output, held, markOrder, staged, steps, halted>>

\* A call that returns a failure is recorded, and changes nothing else.
Fail(rec) ==
    /\ last' = rec
    /\ UNCHANGED <<core, steps, halted>>

Live == halted = "no" /\ steps < MaxOps

Free(i) == slots[i].status = MPP_SLOT_UNUSED

AllFree == \A i \in 0..(count - 1) : i \in DOMAIN slots => Free(i)

\* ------------------------------------------------------------ initial state
Init ==
    /\ slots = [i \in {} |-> FreshEntry(i)]
    /\ allocated = FALSE
    /\ display = [next |-> HEAD, prev |-> HEAD]
    /\ count = 0
    /\ size = 0
    /\ decode_count = 0
    /\ display_count = 0
    /\ info_changed = 0
    /\ new_count = 0
    /\ new_size = 0
    /\ output = 0
    /\ halted = "no"
    /\ held = [i \in AllIndex |-> 0]
    /\ markOrder = <<>>
    /\ staged = [count |-> 0, size |-> 0]
    /\ last = Op("init", -1, "MPP_OK", {})
    /\ steps = 0
    /\ lock = NoThread
    /\ pc = [t \in Threads |-> "idle"]
    /\ scan = [t \in Threads |-> -1]
    /\ seen = <<"none", 0>>

\* A process that has stopped holds no pool any more: every variable of the
\* pool is back at its initial value.
Gone(how, op, index) ==
    /\ halted' = how
    /\ last' = Op(op, index, how, {})
    /\ slots' = [i \in {} |-> FreshEntry(i)]
    /\ allocated' = FALSE
    /\ display' = [next |-> HEAD, prev |-> HEAD]
    /\ count' = 0
    /\ size' = 0
    /\ decode_count' = 0
    /\ display_count' = 0
    /\ info_changed' = 0
    /\ new_count' = 0
    /\ new_size' = 0
    /\ output' = 0
    /\ held' = [i \in AllIndex |-> 0]
    /\ markOrder' = <<>>
    /\ staged' = [count |-> 0, size |-> 0]
    /\ steps' = 0

\* mpp_assert fails in a build that aborts on assertions.
Abort(op, index) == Gone("abort", op, index)

\* A read or write through a pointer outside the table whose outcome the
\* program does not survive in a defined state.
Undefined(op, index) == Gone("ub", op, index)

\* ------------------------------------------------------------ operations
setup_first(cnt, sz) ==
    /\ slots' = init_slot_entry(mpp_realloc(slots, cnt), 0, cnt)
    /\ allocated' = TRUE
    /\ count' = cnt
    /\ size' = sz
    /\ UNCHANGED <<info_changed, new_count, new_size, staged>>

setup_grow(cnt, sz) ==
    /\ slots' = IF cnt > count
                THEN init_slot_entry(mpp_realloc(slots, cnt), count, cnt - count)
                ELSE slots
    /\ UNCHANGED <<allocated, count, size, info_changed, new_count, new_size, staged>>

\* Mutant of setup_stage: the new size is applied to the live pool at once.
setup_stage_Apply(cnt, sz) ==
    /\ new_count' = cnt
    /\ new_size' = sz
    /\ info_changed' = 1
    /\ staged' = [count |-> cnt, size |-> sz]
    /\ size' = sz
    /\ UNCHANGED <<slots, allocated, count>>

setup_stage(cnt, sz) ==
    /\ new_count' = cnt
    /\ new_size' = sz
    /\ info_changed' = 1
    /\ staged' = [count |-> cnt, size |-> sz]
    /\ UNCHANGED <<slots, allocated, count, size>>

mpp_buf_slot_setup(cnt, sz, changed) ==
    /\ Live
    /\ \E abort \in BOOLEAN :
        IF ~SlotsIsNull /\ ~changed /\ sz # size /\ abort
        THEN Abort("setup_grow", -1)
        ELSE /\ IF SlotsIsNull THEN setup_first(cnt, sz)
                ELSE IF ~changed THEN setup_grow(cnt, sz)
                ELSE setup_stage(cnt, sz)
             /\ UNCHANGED <<display, decode_count, display_count, output, held, markOrder>>
             /\ Record(Asserted(Op(IF SlotsIsNull THEN "setup_first"
                                   ELSE IF changed THEN "setup_stage" ELSE "setup_grow",
                                   -1, "MPP_OK", {}),
                                ~SlotsIsNull /\ ~changed /\ sz # size))

mpp_buf_slot_is_changed == info_changed

\* Mutant of ready_commit: the table is reinitialised only when it grows.
ready_commit_GrowOnly ==
    /\ info_changed' = 0
    /\ size' = new_size
    /\ slots' = IF count < new_count
                THEN init_slot_entry(mpp_realloc(slots, new_count), 0, new_count)
                ELSE slots
    /\ count' = IF count < new_count THEN new_count ELSE count

ready_commit ==
    /\ info_changed' = 0
    /\ size' = new_size
    /\ slots' = IF count # new_count
                THEN init_slot_entry(mpp_realloc(slots, new_count), 0, new_count)
                ELSE slots
    /\ count' = new_count

mpp_buf_slot_ready ==
    /\ Live
    /\ \E abort \in BOOLEAN :
        IF (info_changed = 0 \/ SlotsIsNull) /\ abort
        THEN Abort("ready", -1)
        ELSE /\ ready_commit
             /\ UNCHANGED <<allocated, display, decode_count, display_count, new_count,
                            new_size, output, held, markOrder, staged>>
             /\ Record(Asserted(Op("ready", -1, "MPP_OK", {}),
                                info_changed = 0 \/ SlotsIsNull))

\* The index mpp_buf_slot_get_unused hands out: the first entry of the scan
\* whose status is UNUSED, or -1.
UnusedSet == {i \in 0..(count - 1) : slots[i].status = MPP_SLOT_UNUSED}

\* Mutant of FirstUnused: the scan keeps going and hands out the last UNUSED
\* entry it meets.
FirstUnused_Last ==
    IF UnusedSet = {} THEN -1
    ELSE CHOOSE i \in UnusedSet : \A j \in UnusedSet : i >= j

FirstUnused ==
    IF UnusedSet = {} THEN -1
    ELSE CHOOSE i \in UnusedSet : \A j \in UnusedSet : i <= j

mpp_buf_slot_get_unused ==
    /\ Live
    /\ \E abort \in BOOLEAN :
        IF FirstUnused = -1
        THEN IF abort THEN Abort("get_unused", -1)
             ELSE Fail(Asserted(Op("get_unused", -1, "MPP_NOK", {}), TRUE))
        ELSE /\ slots' = [slots EXCEPT ![FirstUnused].status = @ \cup {MPP_SLOT_USED}]
             /\ UNCHANGED <<allocated, display, impl, held, markOrder, staged>>
             /\ Record(Op("get_unused", FirstUnused, "MPP_OK", {}))

mpp_buf_slot_set_ref(index) ==
    /\ Live
    /\ index < count
    /\ slots' = [slots EXCEPT ![index].status = @ \cup {MPP_SLOT_USED_AS_REF}]
    /\ UNCHANGED <<allocated, display, impl, held, markOrder, staged>>
    /\ Record(Op("set_ref", index, "MPP_OK", {}))

\* The entry that check_entry_unused(&slot[index]) is handed when slot is
\* already &impl->slots[index]: the one index entries further on.
ClrTarget(index) == index + index

\* The release check on entry t of table S, when t is an entry of the table.
ReleaseCheck(S, t) ==
    IF t \in DOMAIN S THEN [S EXCEPT ![t] = check_entry_unused(S[t])] ELSE S

\* The tail shared by clr_ref and clr_decoding, on the table S that the status
\* update left.  Past the end of the table the word read as a status is or is
\* not MPP_SLOT_USED (hit).
ClrTail(op, index, S, abort, hit) ==
    LET t == ClrTarget(index) IN
    IF t \notin DOMAIN S /\ hit THEN Undefined(op, index)
    ELSE IF t \in DOMAIN S /\ ReleaseAssertFails(S, t) /\ abort THEN Abort(op, index)
    ELSE /\ slots' = ReleaseCheck(S, t)
         /\ held' = IF t \in DOMAIN S THEN PutOnRelease(S, t) ELSE held
         /\ UNCHANGED <<allocated, display, count, size, display_count, info_changed,
                        new_count, new_size, output, markOrder, staged>>
         /\ decode_count' = IF op = "clr_decoding"
                            THEN (decode_count + 1) % CounterMod ELSE decode_count
         /\ Record(Asserted(Op(op, index, "MPP_OK",
                               IF t \in DOMAIN S THEN ReleasedBy(S, t) ELSE {}),
                            t \in DOMAIN S /\ ReleaseAssertFails(S, t)))

mpp_buf_slot_clr_ref(index) ==
    /\ Live
    /\ index < count
    /\ \E abort \in BOOLEAN, hit \in BOOLEAN :
          ClrTail("clr_ref", index,
                  [slots EXCEPT ![index].status = @ \ {MPP_SLOT_USED_AS_REF}], abort, hit)

\* memcpy(slot->frame, frame, sizeof(MppFrameImpl)): every field of the
\* caller's frame replaces the slot's, the buffer binding with the rest.
CopyFrame(old, frame) == frame

CallerFrames == [meta : Metas, buffer : {NULL}]

mpp_buf_slot_set_decoding(index, frame) ==
    /\ Live
    /\ index < count
    /\ slots' = [slots EXCEPT ![index].status = @ \cup {MPP_SLOT_USED_AS_DECODING},
                              ![index].frame = CopyFrame(@, frame)]
    /\ output' = index
    /\ UNCHANGED <<allocated, display, count, size, decode_count, display_count,
                   info_changed, new_count, new_size, held, markOrder, staged>>
    /\ Record([Op("set_decoding", index, "MPP_OK", {})
                 EXCEPT !.frame_init = (slots[index].frame = NoFrame)])

mpp_buf_slot_clr_decoding(index) ==
    /\ Live
    /\ index < count
    /\ \E abort \in BOOLEAN, hit \in BOOLEAN :
          ClrTail("clr_decoding", index,
                  [slots EXCEPT ![index].status = @ \ {MPP_SLOT_USED_AS_DECODING}],
                  abort, hit)

mpp_buf_slot_get_decoding == output

mpp_buf_slot_get_size == size

\* list_del_init(&slot->list); list_add_tail(&slot->list, &impl->display)
Requeue(H, index) == list_add_tail(list_del_init(H, index), index, HEAD)

mpp_buf_slot_set_display(index) ==
    /\ Live
    /\ index < count
    /\ LET S1 == [slots EXCEPT ![index].status = @ \cup {MPP_SLOT_USED_AS_DISPLAY}]
           H0 == Heap(S1, display)
           H1 == list_del_init(H0, index)
           H2 == Requeue(H0, index)
       IN  IF (\E n \in DelTouches(H0, index) : ~NodeValid(H0, n))
              \/ ~NodeValid(H1, NodeOf(H1, HEAD).prev)
           THEN Undefined("set_display", index)
           ELSE /\ slots' = H2.slots
                /\ display' = H2.display
                /\ markOrder' = Append(SeqWithout(markOrder, index), index)
                /\ UNCHANGED <<allocated, impl, held, staged>>
                /\ Record(Op("set_display", index, "MPP_OK", {}))

mpp_buf_slot_set_buffer(index, buffer) ==
    /\ Live
    /\ index < count
    /\ held[index] < MaxHeld
    /\ \E abort \in BOOLEAN :
        IF slots[index].frame = NoFrame /\ abort
        THEN Abort("set_buffer", index)
        ELSE /\ slots' = IF slots[index].frame = NoFrame THEN slots
                         ELSE [slots EXCEPT ![index].frame.buffer = buffer]
             /\ held' = [held EXCEPT ![index] = @ + 1]
             /\ UNCHANGED <<allocated, display, impl, markOrder, staged>>
             /\ Record(Asserted(Op("set_buffer", index, "MPP_OK", {}),
                                slots[index].frame = NoFrame))

mpp_buf_slot_get_buffer(index) == mpp_frame_get_buffer(slots[index].frame)

\* The entry mpp_buf_slot_get_display takes: list_entry(impl->display.next).
DisplayNext == display.next

\* The frame mpp_buf_slot_get_display stores in *frame.
DisplayFrame == slots[DisplayNext].frame

mpp_buf_slot_get_display ==
    /\ Live
    /\ LET H0 == Heap(slots, display) IN
       IF list_empty(H0, HEAD)
       THEN Fail(Op("get_display", -1, "MPP_NOK", {}))
       ELSE LET e == DisplayNext IN
            IF ~NodeValid(H0, e) \/ \E n \in DelTouches(H0, e) : ~NodeValid(H0, n)
            THEN Undefined("get_display", e)
            ELSE LET index == slots[e].index
                     S1 == [slots EXCEPT ![e].status = @ \ {MPP_SLOT_USED_AS_DISPLAY}]
                     H1 == list_del_init(Heap(S1, display), e)
                     S2 == H1.slots
                 IN  \E abort \in BOOLEAN :
                       IF (index >= count \/ ReleaseAssertFails(S2, e)) /\ abort
                       THEN Abort("get_display", index)
                       ELSE /\ slots' = ReleaseCheck(S2, e)
                            /\ display' = H1.display
                            /\ held' = PutOnRelease(S2, e)
                            /\ display_count' = (display_count + 1) % CounterMod
                            /\ markOrder' = SeqWithout(markOrder, index)
                            /\ UNCHANGED <<allocated, count, size, decode_count,
                                           info_changed, new_count, new_size, output,
                                           staged>>
                            /\ Record(Asserted(Op("get_display", index, "MPP_OK",
                                                  ReleasedBy(S2, e)),
                                               index >= count \/ ReleaseAssertFails(S2, e)))

\* One caller at a time: each call runs from its lock to its return with no
\* other call in between, so the threads stay where they are.
Sequential == UNCHANGED tvars

FrameOps ==
    \/ Sequential /\ mpp_buf_slot_get_unused
    \/ \E index \in AllIndex : Sequential /\ mpp_buf_slot_set_ref(index)
    \/ \E index \in AllIndex : Sequential /\ mpp_buf_slot_clr_ref(index)
    \/ \E index \in AllIndex, frame \in CallerFrames :
          Sequential /\ mpp_buf_slot_set_decoding(index, frame)
    \/ \E index \in AllIndex : Sequential /\ mpp_buf_slot_clr_decoding(index)
    \/ \E index \in AllIndex : Sequential /\ mpp_buf_slot_set_display(index)
    \/ \E index \in AllIndex, buffer \in Buffers :
          Sequential /\ mpp_buf_slot_set_buffer(index, buffer)
    \/ Sequential /\ mpp_buf_slot_get_display

Next ==
    \/ \E cnt \in Counts, sz \in Sizes, changed \in BOOLEAN :
          Sequential /\ mpp_buf_slot_setup(cnt, sz, changed)
    \/ Sequential /\ mpp_buf_slot_ready
    \/ FrameOps

Spec == Init /\ [][Next]_vars

\* Callers that keep ready()'s precondition: it is called once every slot is
\* Free.
NextProtocol ==
    \/ \E cnt \in Counts, sz \in Sizes, changed \in BOOLEAN :
          Sequential /\ mpp_buf_slot_setup(cnt, sz, changed)
    \/ Sequential /\ AllFree /\ mpp_buf_slot_ready
    \/ FrameOps

SpecProtocol == Init /\ [][NextProtocol]_vars

\* ------------------------------------------------------------ threads
\* The same entry points called from several threads, a call being the steps
\* its statements make: Mutex::Autolock at entry, the body, and the unlock of
\* the Autolock's destructor at return.  The scan of get_unused and the
\* statements of ready are steps of their own; the two queries that take no
\* lock are one read each.
pool == <<core, last, steps, halted>>

\* Mutant of LockFree: the lock is handed to whoever asks.
LockFree_Always == TRUE

LockFree == lock = NoThread

Goto(t, where) == pc' = [pc EXCEPT ![t] = where]

Autolock(t) ==
    /\ halted = "no" /\ steps < MaxCalls
    /\ pc[t] = "idle"
    /\ LockFree
    /\ lock' = t
    /\ Goto(t, "locked")
    /\ UNCHANGED <<pool, scan, seen>>

Unlock(t) ==
    /\ halted = "no"
    /\ pc[t] = "return"
    /\ lock' = NoThread
    /\ Goto(t, "idle")
    /\ scan' = [scan EXCEPT ![t] = -1]
    /\ UNCHANGED <<pool, seen>>

\* A body that is taken as one step under the lock.
Locked(t) ==
    /\ pc[t] = "locked"
    /\ Goto(t, "return")
    /\ UNCHANGED <<lock, scan, seen>>

LockedCall(t) ==
    \/ \E cnt \in Counts, sz \in Sizes, changed \in BOOLEAN :
          Locked(t) /\ mpp_buf_slot_setup(cnt, sz, changed)
    \/ \E index \in AllIndex : Locked(t) /\ mpp_buf_slot_set_ref(index)
    \/ \E index \in AllIndex : Locked(t) /\ mpp_buf_slot_clr_ref(index)
    \/ \E index \in AllIndex, frame \in CallerFrames :
          Locked(t) /\ mpp_buf_slot_set_decoding(index, frame)
    \/ \E index \in AllIndex : Locked(t) /\ mpp_buf_slot_clr_decoding(index)
    \/ \E index \in AllIndex : Locked(t) /\ mpp_buf_slot_set_display(index)
    \/ \E index \in AllIndex, buffer \in Buffers :
          Locked(t) /\ mpp_buf_slot_set_buffer(index, buffer)
    \/ Locked(t) /\ mpp_buf_slot_get_display

\* mpp_buf_slot_get_unused, statement by statement.
ScanInit(t) ==
    /\ halted = "no"
    /\ pc[t] = "locked"
    /\ scan' = [scan EXCEPT ![t] = 0]
    /\ Goto(t, "scan")
    /\ UNCHANGED <<pool, lock, seen>>

ScanTest(t) ==
    /\ halted = "no"
    /\ pc[t] = "scan"
    /\ UNCHANGED <<lock, seen>>
    /\ LET i == scan[t] IN
       IF i < count
       THEN IF i \notin DOMAIN slots
            THEN Undefined("get_unused", i) /\ Goto(t, "return") /\ UNCHANGED scan
            ELSE /\ UNCHANGED pool
                 /\ IF slots[i].status = MPP_SLOT_UNUSED
                    THEN Goto(t, "take") /\ UNCHANGED scan
                    ELSE scan' = [scan EXCEPT ![t] = i + 1] /\ UNCHANGED pc
       ELSE /\ Goto(t, "return")
            /\ scan' = [scan EXCEPT ![t] = -1]
            /\ \E abort \in BOOLEAN :
                 IF abort THEN Abort("get_unused", -1)
                 ELSE Fail(Asserted(Op("get_unused", -1, "MPP_NOK", {}), TRUE))

ScanTake(t) ==
    /\ halted = "no"
    /\ pc[t] = "take"
    /\ UNCHANGED <<lock, seen, scan>>
    /\ Goto(t, "return")
    /\ LET i == scan[t] IN
       IF i \notin DOMAIN slots THEN Undefined("get_unused", i)
       ELSE /\ slots' = [slots EXCEPT ![i].status = @ \cup {MPP_SLOT_USED}]
            /\ UNCHANGED <<allocated, display, impl, held, markOrder, staged>>
            /\ Record(Op("get_unused", i, "MPP_OK", {}))

\* mpp_buf_slot_ready, statement by statement.
InsideReady == {"ready_realloc", "ready_count"}

ReadyAssign(t) ==
    /\ halted = "no"
    /\ pc[t] = "locked"
    /\ UNCHANGED <<lock, seen, scan>>
    /\ \E abort \in BOOLEAN :
        IF (info_changed = 0 \/ SlotsIsNull) /\ abort
        THEN Abort("ready", -1) /\ Goto(t, "return")
        ELSE /\ info_changed' = 0
             /\ size' = new_size
             /\ UNCHANGED <<slots, allocated, display, count, decode_count, display_count,
                            new_count, new_size, output, held, markOrder, staged, halted>>
             /\ last' = Asserted(Op("ready", -1, "MPP_OK", {}),
                                 info_changed = 0 \/ SlotsIsNull)
             /\ steps' = steps + 1
             /\ Goto(t, "ready_realloc")

ReadyRealloc(t) ==
    /\ halted = "no"
    /\ pc[t] = "ready_realloc"
    /\ slots' = IF count # new_count
                THEN init_slot_entry(mpp_realloc(slots, new_count), 0, new_count)
                ELSE slots
    /\ Goto(t, "ready_count")
    /\ UNCHANGED <<allocated, display, impl, held, markOrder, staged, last, steps, halted,
                   lock, seen, scan>>

ReadyCount(t) ==
    /\ halted = "no"
    /\ pc[t] = "ready_count"
    /\ count' = new_count
    /\ Goto(t, "return")
    /\ UNCHANGED <<slots, allocated, display, size, decode_count, display_count,
                   info_changed, new_count, new_size, output, held, markOrder, staged,
                   last, steps, halted, lock, seen, scan>>

\* The two queries that read impl without taking impl->lock.
GetSize(t) ==
    /\ halted = "no"
    /\ pc[t] = "idle"
    /\ seen' = <<"size", mpp_buf_slot_get_size>>
    /\ UNCHANGED <<pool, lock, pc, scan>>

GetDecoding(t) ==
    /\ halted = "no"
    /\ pc[t] = "idle"
    /\ seen' = <<"output", mpp_buf_slot_get_decoding>>
    /\ UNCHANGED <<pool, lock, pc, scan>>

NextThreads ==
    \E t \in Threads :
       \/ Autolock(t)
       \/ LockedCall(t)
       \/ ScanInit(t)
       \/ ScanTest(t)
       \/ ScanTake(t)
       \/ ReadyAssign(t)
       \/ ReadyRealloc(t)
       \/ ReadyCount(t)
       \/ Unlock(t)
       \/ GetSize(t)
       \/ GetDecoding(t)

SpecThreads == Init /\ [][NextThreads]_vars

\* A thread that is inside a call goes on to its return: nothing in a body
\* waits.  Starting a call, or making a query, is up to the caller.
InCall(t) ==
    \/ LockedCall(t)
    \/ ScanInit(t)
    \/ ScanTest(t)
    \/ ScanTake(t)
    \/ ReadyAssign(t)
    \/ ReadyRealloc(t)
    \/ ReadyCount(t)
    \/ Unlock(t)

SpecThreadsFair == SpecThreads /\ \A t \in Threads : WF_vars(InCall(t))

\* ------------------------------------------------------------ claims
Claims == {MPP_SLOT_USED_AS_REF, MPP_SLOT_USED_AS_DECODING, MPP_SLOT_USED_AS_DISPLAY}

Live0 == 0..(count - 1)

\* The call recorded in last' is a successful op on index i.
Did(op, i) == last'.op = op /\ last'.index = i /\ last'.ret = "MPP_OK"

ClearOps == {<<"clr_ref", MPP_SLOT_USED_AS_REF>>, <<"clr_decoding", MPP_SLOT_USED_AS_DECODING>>}

\* C1: for every valid index i, when clearReference(i) or clearDecoding(i)
\* removes the last claim of slot i and leaves exactly {Used}, slot i itself is
\* Free (status empty, buffer reference released) when the call returns; while
\* another claim remains on slot i the call releases nothing.
C1_ReleaseOnLastClaim ==
    [][\A i \in Live0 : \A oc \in ClearOps :
         (Did(oc[1], i) /\ ~last'.asserted /\ oc[2] \in slots[i].status) =>
            IF slots[i].status \ {oc[2]} = {MPP_SLOT_USED}
            THEN slots'[i].status = MPP_SLOT_UNUSED /\ held'[i] = 0
            ELSE last'.released = {} /\ held' = held]_vars

\* C3: in every reachable state and for every slot, the pool holds a buffer
\* reference for the slot if and only if the slot's status is non-empty.
C3_HeldIffBusy ==
    \A i \in Live0 : (held[i] > 0) <=> (slots[i].status # MPP_SLOT_UNUSED)

ClearOpOf(c) ==
    IF c = MPP_SLOT_USED_AS_REF THEN "clr_ref"
    ELSE IF c = MPP_SLOT_USED_AS_DECODING THEN "clr_decoding"
    ELSE "get_display"

\* C2: unless ready() reinitialises the table, a claim on slot i stays set
\* until the matching operation on i itself removes it (clearReference(i),
\* clearDecoding(i), the popDisplay that dequeues i), and acquireUnused never
\* returns i while a claim on i is set.
C2_ClaimKeepsSlot ==
    [][(halted' = "no" /\ last'.op # "ready") =>
         \A i \in Live0 :
            /\ \A c \in Claims :
                 (c \in slots[i].status /\ c \notin slots'[i].status) => Did(ClearOpOf(c), i)
            /\ Did("get_unused", i) => slots[i].status \cap Claims = {}]_vars

\* acquireUnused has just passed over slot 0, which holds nothing but a
\* Reference claim, and handed out slot 1.
C2_Witness ==
    /\ last.op = "get_unused" /\ last.index = 1 /\ last.ret = "MPP_OK"
    /\ slots[0].status = {MPP_SLOT_USED_AS_REF}

C5_NoDuplicates ==
    [][/\ NoDup(DisplayList')
       /\ \A i \in Live0 :
            (Did("set_display", i) /\ i \in SeqSet(DisplayList)) =>
               DisplayList' = Append(SeqWithout(DisplayList, i), i)]_vars

\* C6: clearReference(i) (resp. clearDecoding(i)) on a slot whose status does
\* not contain Reference (resp. Decoding) leaves the status, frame and buffer
\* reference of every slot unchanged.
C6_ClearIsNoOp ==
    [][\A i \in Live0 : \A oc \in ClearOps :
         (Did(oc[1], i) /\ ~last'.asserted /\ oc[2] \notin slots[i].status) =>
            /\ \A j \in Live0 : /\ slots'[j].status = slots[j].status
                                /\ slots'[j].frame = slots[j].frame
            /\ held' = held]_vars

C8_Growth ==
    [][\A cnt \in Counts :
         (allocated /\ cnt > count /\ mpp_buf_slot_setup(cnt, size, FALSE)
          /\ halted' = "no") =>
            /\ \A i \in Live0 : /\ slots'[i].status = slots[i].status
                                /\ slots'[i].frame = slots[i].frame
            /\ count' = cnt
            /\ \A i \in count..(cnt - 1) :
                 i \in DOMAIN slots' /\ slots'[i].status = MPP_SLOT_UNUSED]_vars

\* C9: after the first setup, capacity and bufferSize change only in a
\* ready() that commits a staged change, and never while a slot is non-Free or
\* the display queue is non-empty.
C9_GeometryOnlyWhenDrained ==
    [][(allocated /\ halted' = "no" /\ ~last'.asserted
        /\ (count' # count \/ size' # size)) =>
         /\ last'.op = "ready"
         /\ info_changed = 1
         /\ AllFree
         /\ DisplayList = <<>>]_vars

\* C10: setup(count, size, changed=true) on a set-up pool changes nothing in
\* the live pool; it records the staged {count, size}, and isChanged() reports
\* true from then until the next ready().
C10_StageLeavesLive ==
    [][/\ \A cnt \in Counts, sz \in Sizes :
            (allocated /\ mpp_buf_slot_setup(cnt, sz, TRUE)) =>
               /\ UNCHANGED <<slots, display, count, size, decode_count, display_count,
                              output, held>>
               /\ new_count' = cnt /\ new_size' = sz
               /\ mpp_buf_slot_is_changed' = 1
       /\ (mpp_buf_slot_is_changed = 1 /\ mpp_buf_slot_is_changed' # 1 /\ halted' = "no")
             => last'.op = "ready"]_vars

\* A change of both capacity and size has just been staged on a pool that has
\* a slot in use and a frame queued for display.
C10_Witness ==
    /\ last.op = "setup_stage" /\ last.ret = "MPP_OK"
    /\ info_changed = 1 /\ new_count # count /\ new_size # size
    /\ DisplayList # <<>>
    /\ \E i \in Live0 : MPP_SLOT_USED \in slots[i].status

\* C11: ready() called on a set-up pool with no change staged fails with a
\* precondition violation (the process stops, or the call returns a failure)
\* and leaves capacity, bufferSize and every slot as they were; it never
\* applies stale or zero staged values.
C11_ReadyNeedsStagedChange ==
    [][(allocated /\ mpp_buf_slot_is_changed = 0 /\ last'.op = "ready") =>
         \/ halted' = "abort"
         \/ /\ last'.ret # "MPP_OK"
            /\ UNCHANGED <<count, size, slots>>]_vars

\* C12: when at least one slot is Free, acquireUnused returns the lowest index
\* whose slot is Free, sets exactly that slot's status to {Used}, and changes
\* no other slot, the display queue, the counters or lastDecodingIndex.
C12_AcquireLowestFree ==
    [][(mpp_buf_slot_get_unused /\ \E i \in Live0 : slots[i].status = MPP_SLOT_UNUSED) =>
         \E i \in Live0 :
            /\ Did("get_unused", i)
            /\ slots[i].status = MPP_SLOT_UNUSED
            /\ \A j \in 0..(i - 1) : slots[j].status # MPP_SLOT_UNUSED
            /\ slots' = [slots EXCEPT ![i].status = {MPP_SLOT_USED}]
            /\ UNCHANGED <<display, decode_count, display_count, output>>
            /\ DisplayList' = DisplayList]_vars

\* acquireUnused has just handed out slot 1 of three: slot 0 is busy and slot 2
\* is still Free.
C12_Witness ==
    /\ last.op = "get_unused" /\ last.index = 1 /\ last.ret = "MPP_OK"
    /\ count = 3
    /\ slots[0].status # MPP_SLOT_UNUSED
    /\ slots[1].status = {MPP_SLOT_USED}
    /\ slots[2].status = MPP_SLOT_UNUSED

\* C13: acquireUnused fails exactly when no slot is Free and popDisplay fails
\* exactly when the display queue is empty; a call that fails returns at once
\* and leaves every slot's status, the display queue, decodeCount and
\* displayCount as they were.
C13_FailuresLeavePool ==
    [][/\ (mpp_buf_slot_get_unused /\ halted' = "no") =>
            ((last'.op = "get_unused" /\ last'.ret = "MPP_NOK")
               <=> \A i \in Live0 : slots[i].status # MPP_SLOT_UNUSED)
       /\ (mpp_buf_slot_get_display /\ halted' = "no") =>
            ((last'.op = "get_display" /\ last'.ret = "MPP_NOK") <=> DisplayList = <<>>)
       /\ last'.ret = "MPP_NOK" =>
            /\ last'.op \in {"get_unused", "get_display"}
            /\ \A i \in Live0 : slots'[i].status = slots[i].status
            /\ DisplayList' = DisplayList
            /\ UNCHANGED <<display, decode_count, display_count, count>>]_vars

\* acquireUnused has just failed on a pool whose every slot is Acquired, with
\* nothing queued for display.
C13_Witness ==
    /\ last.op = "get_unused" /\ last.ret = "MPP_NOK"
    /\ allocated /\ count > 1
    /\ \A i \in Live0 : slots[i].status = {MPP_SLOT_USED}
    /\ DisplayList = <<>>

\* The claim bit the call recorded in last' removes from slot j, if any.
ClearedOn(j) ==
    IF last'.index # j \/ last'.ret # "MPP_OK" THEN {}
    ELSE IF last'.op = "clr_ref" THEN {MPP_SLOT_USED_AS_REF}
    ELSE IF last'.op = "clr_decoding" THEN {MPP_SLOT_USED_AS_DECODING}
    ELSE IF last'.op = "get_display" THEN {MPP_SLOT_USED_AS_DISPLAY}
    ELSE {}

Reinit == {"ready", "setup_first"}

\* C14 (as claimed): in every transition other than a reinitialisation of the
\* table in which a slot's status becomes empty, the status was exactly {Used}
\* once the operation had removed its claim; a slot whose status is a claim
\* without Used never becomes Free by clearing that claim.
C14_FreeOnlyFromUsed ==
    [][(halted' = "no" /\ last'.op \notin Reinit) =>
         \A j \in Live0 :
            (slots[j].status # MPP_SLOT_UNUSED /\ slots'[j].status = MPP_SLOT_UNUSED) =>
               slots[j].status \ ClearedOn(j) = {MPP_SLOT_USED}]_vars

\* C14 (amended): a slot whose status contains Used becomes Free only from
\* exactly {Used}, once the operation has removed its claim; a slot whose
\* status is claims without Used becomes Free exactly when the operation on it
\* clears its last claim, and then nothing is released.
C14_FreeFromUsedOrLoneClaim ==
    [][(halted' = "no" /\ last'.op \notin Reinit) =>
         \A j \in Live0 :
            (slots[j].status # MPP_SLOT_UNUSED /\ slots'[j].status = MPP_SLOT_UNUSED) =>
               IF MPP_SLOT_USED \in slots[j].status
               THEN slots[j].status \ ClearedOn(j) = {MPP_SLOT_USED}
               ELSE /\ slots[j].status = ClearedOn(j)
                    /\ j \notin last'.released
                    /\ held'[j] = held[j]]_vars

\* popDisplay has just taken slot 0, which was marked for display while Free:
\* its status went from {Display} to empty and nothing was released.
C14_Witness ==
    /\ last.op = "get_display" /\ last.index = 0 /\ last.ret = "MPP_OK"
    /\ last.released = {}
    /\ slots[0].status = MPP_SLOT_UNUSED
    /\ display_count = 1 /\ decode_count = 0
    /\ \A i \in Live0 : slots[i].status = MPP_SLOT_UNUSED /\ slots[i].frame = NoFrame

\* C15 (as claimed): once setDecoding has allocated slot i's frame handle, the
\* handle stays attached: the release check that returns the slot to Free only
\* clears the handle's buffer binding, and a later setDecoding(i) reuses the
\* handle instead of allocating a new one.
C15_HandleSurvivesRelease ==
    [][(halted' = "no" /\ last'.op \notin Reinit) =>
         \A j \in Live0 :
            slots[j].frame # NoFrame =>
               /\ slots'[j].frame # NoFrame
               /\ j \in last'.released => mpp_frame_get_buffer(slots'[j].frame) = NULL
               /\ Did("set_decoding", j) => ~last'.frame_init]_vars

\* C15 (amended): the release check that returns a slot to Free releases the
\* buffer of the attached frame and detaches the frame; nothing else short of a
\* reinitialisation detaches it, so setDecoding(i) reuses the handle until the
\* slot is released and allocates a new one in the next busy cycle.
C15_HandleDetachedOnRelease ==
    [][(halted' = "no" /\ last'.op \notin Reinit) =>
         \A j \in Live0 :
            /\ j \in last'.released => slots'[j].frame = NoFrame
            /\ (slots[j].frame # NoFrame /\ slots'[j].frame = NoFrame)
                 => j \in last'.released
            /\ Did("set_decoding", j) =>
                 /\ slots'[j].frame # NoFrame
                 /\ last'.frame_init <=> slots[j].frame = NoFrame]_vars

\* clearDecoding(0) has just released slot 0, which had a frame handle from an
\* earlier setDecoding: the slot is Free and no frame is attached to it.
C15_Witness ==
    /\ last.op = "clr_decoding" /\ last.index = 0 /\ last.ret = "MPP_OK"
    /\ last.released = {0} /\ ~last.asserted
    /\ slots[0].status = MPP_SLOT_UNUSED
    /\ slots[0].frame = NoFrame

\* C16: setDecoding(i, f) adds the Decoding claim to slot i, copies f's
\* metadata into slot i's frame handle and sets lastDecodingIndex to i; it
\* leaves the buffer binding of slot i as it was, so getBuffer(i) still returns
\* the buffer bound earlier by bindBuffer(i, b).
C16_SetDecodingKeepsBinding ==
    [][\A i \in Live0 : \A f \in CallerFrames :
         (mpp_buf_slot_set_decoding(i, f) /\ halted' = "no") =>
            /\ MPP_SLOT_USED_AS_DECODING \in slots'[i].status
            /\ slots'[i].frame # NoFrame /\ slots'[i].frame.meta = f.meta
            /\ mpp_buf_slot_get_decoding' = i
            /\ mpp_frame_get_buffer(slots'[i].frame) = mpp_buf_slot_get_buffer(i)]_vars

IndexOps == {"set_ref", "clr_ref", "set_decoding", "clr_decoding", "set_display", "set_buffer"}

\* C19: an operation addressed to index i (setReference, clearReference,
\* setDecoding, clearDecoding, markDisplay, bindBuffer) changes the status, the
\* attached frame and the buffer reference of slot i only: every other slot
\* below capacity is as it was, so no slot is released by a clear operation on
\* a different index.
C19_OnlyAddressedSlot ==
    [][\A i \in Live0 :
         (last'.op \in IndexOps /\ last'.index = i /\ last'.ret = "MPP_OK"
          /\ halted' = "no") =>
            \A j \in Live0 \ {i} :
               /\ slots'[j].status = slots[j].status
               /\ slots'[j].frame = slots[j].frame
               /\ held'[j] = held[j]]_vars

\* C20: in every state reachable when ready() is only called with all slots
\* Free, slot i has the Display claim if and only if index i is in the display
\* queue: a Free slot is never queued, the entry popDisplay would take is never
\* a Free slot's, and the queue is empty whenever all slots are Free.
C20_DisplayIffQueued ==
    /\ \A i \in Live0 :
         (MPP_SLOT_USED_AS_DISPLAY \in slots[i].status) <=> (i \in SeqSet(DisplayList))
    /\ SeqSet(DisplayList) \subseteq Live0
    /\ ~list_empty(Heap(slots, display), HEAD) =>
         /\ DisplayNext \in Live0
         /\ slots[DisplayNext].status # MPP_SLOT_UNUSED
    /\ AllFree => DisplayList = <<>>

\* After a committed resize, two slots were marked for display and popDisplay
\* has just taken the first: slot 0 has lost its Display claim and left the
\* queue, slot 1 has the claim and is the queue.
C20_Witness ==
    /\ last.op = "get_display" /\ last.index = 0 /\ last.ret = "MPP_OK"
    /\ info_changed = 0 /\ staged.count = count /\ count > 0
    /\ MPP_SLOT_USED_AS_DISPLAY \notin slots[0].status
    /\ MPP_SLOT_USED_AS_DISPLAY \in slots[1].status
    /\ DisplayList = <<1>>

\* C17: every read of pool state happens under the pool's lock, so a size
\* query made while another thread is inside ready() sees the geometry before
\* the commit or the geometry after it: it never returns a bufferSize other
\* than the one the query before it returned, the staged one, while capacity
\* and the table are still the old ones.
C17_QueriesUnderLock ==
    [][(seen[1] = "size" /\ seen'[1] = "size" /\ seen'[2] # seen[2] /\ ~last.asserted) =>
         ~ /\ \E u \in Threads : pc[u] \in InsideReady
           /\ seen'[2] = staged.size
           /\ count # staged.count]_vars

\* The step in which thread t's acquireUnused takes the slot its scan stopped
\* at.
Takes(t) == pc[t] = "take" /\ pc'[t] = "return" /\ halted' = "no"

\* C18: mutators are atomic with respect to each other: only the thread that
\* holds the lock is inside a call and only it changes the pool, the step in
\* which a thread's acquireUnused takes a slot is the step the call makes when
\* it runs alone (the slot is the lowest Free one, Free until then), so two
\* concurrent calls never return the same index; and every call gives the lock
\* back when it returns, so a held lock always becomes free again.
C18_MutatorsAtomic ==
    /\ [](\A t \in Threads : pc[t] # "idle" => lock = t)
    /\ [][/\ pool' # pool =>
               \E t \in Threads :
                  /\ lock = t /\ pc[t] # "idle"
                  /\ \A u \in Threads \ {t} : pc'[u] = pc[u]
          /\ \A t \in Threads :
               Takes(t) =>
                  /\ mpp_buf_slot_get_unused
                  /\ last'.index = scan[t]
                  /\ slots[scan[t]].status = MPP_SLOT_UNUSED
                  /\ \A j \in 0..(scan[t] - 1) : slots[j].status # MPP_SLOT_UNUSED]_vars
    /\ (lock # NoThread /\ halted = "no") ~> (lock = NoThread \/ halted # "no")

\* A thread's acquireUnused has just taken slot 1 and is about to return, the
\* other thread's earlier call having taken slot 0.
C18_Witness ==
    \E t \in Threads :
       /\ pc[t] = "return" /\ lock = t /\ scan[t] = 1
       /\ last.op = "get_unused" /\ last.index = 1 /\ last.ret = "MPP_OK"
       /\ slots[0].status = {MPP_SLOT_USED}
       /\ slots[1].status = {MPP_SLOT_USED}
====
